---------------------------- MODULE Spec2Model ----------------------------
(***************************************************************************)
(* Model of the file decorators of include/pdlfs-common/env_files.h.       *)
(*                                                                         *)
(* This part models UnsafeBufferedWritableFile: a write buffer of fixed    *)
(* capacity in front of a wrapped WritableFile, base_.  The wrapped        *)
(* writer is the environment: each of its calls either succeeds or fails,  *)
(* chosen nondeterministically.                                            *)
(*                                                                         *)
(* The code never inspects the bytes it moves, so the caller's stream is   *)
(* labelled by position: the k-th byte ever passed to Append is the number *)
(* k.  A lost, duplicated or reordered byte is then visible in the data.   *)
(***************************************************************************)
EXTENDS Integers, Sequences, FiniteSets

\* Largest capacity (buf_size) given to the constructor.
MaxCap == 3
\* Longest Slice passed to one Append call.
MaxLen == 4
\* Total number of bytes the caller passes to Append over a run.
MaxTotal == 5

VARIABLES
    max_buf_size_,  \* const size_t max_buf_size_
    buf_,           \* std::string buf_
    offset_,        \* uint64_t offset_ (number of bytes flushed)
    base_,          \* WritableFile* base_: "base" or "NULL"
    destroyed,      \* the decorator's destructor has run
    op,             \* the last operation called on the decorator
    arg,            \* its argument (Append: data length, SyncBefore: offset)
    ret,            \* the Status it returned
    calls,          \* the calls it made on the wrapped writer, in order
    prev,           \* history: op, arg, ret and number of calls of the operation before it
    wrapped,        \* history: bytes of the wrapped writer's successful Appends, in order
    issued,         \* history: number of bytes passed to Append so far
    allOk,          \* history: every wrapped-writer call so far succeeded
    discarded,      \* history: input bytes Append dropped after a failed buffer-empty
    baseCloses,     \* history: number of Close calls on the wrapped writer
    baseDeletes,    \* history: number of times the wrapped writer was deleted
    lp,             \* the Append call in progress, when its loop is taken step by step
    fault           \* the call made through a NULL base_, if any, and what it led to

\* MeasuredWritableFile and MeasuredSequentialFile.
VARIABLES
    focus,          \* which of the two decorators this run's caller drives
    mw,             \* MeasuredWritableFile: base_, num_syncs_, num_flushes_, bytes_, ops_
    ms,             \* MeasuredSequentialFile: base_, bytes_, ops_
    mlast,          \* the last operation on a decorator: object, op, arg, ret, calls on the base
    mwHist,         \* history since the last Reset: successful Appends, their bytes, Flushes, Syncs
    msHist          \* history since the last Reset: successful Reads and the bytes they returned

\* AtomicMeasuredRandomAccessFile.
VARIABLES
    am,             \* the counters of Rep: bytes, ops
    apc,            \* per thread: where its current Read stands
    alen,           \* per thread: the length its current base Read returned
    aleft,          \* per thread: Reads still to issue
    amHist          \* history: successful base Reads and the bytes they returned

\* WholeFileBufferedRandomAccessFile.
VARIABLES
    wf,             \* max_buf_size_, io_size_, buf_size_, buf_
    wsrc,           \* the bytes of the wrapped SequentialFile
    wphase,         \* "unloaded", then "loaded" or "failed" as Load returned
    wlast           \* the last operation: op, offset, n, ret, result, reads made on the base

bufVars == <<max_buf_size_, buf_, offset_, base_, destroyed, op, arg, ret, calls,
             prev, wrapped, issued, allOk, discarded, baseCloses, baseDeletes,
             lp, fault>>
measVars == <<focus, mw, ms, mlast, mwHist, msHist>>
atomVars == <<am, apc, alen, aleft, amHist>>
wholeVars == <<wf, wsrc, wphase, wlast>>

vars == <<bufVars, measVars, atomVars, wholeVars>>

OK == "OK"
IOError == "IOError"

Range(s) == {s[i] : i \in 1..Len(s)}

\* The Status of a wrapped-writer call that succeeded (ok) or failed.
StatusOf(ok) == IF ok THEN OK ELSE IOError

\* One call on the wrapped writer, as recorded in calls.
Call(fn, data, ok) == [fn |-> fn, data |-> data, ok |-> ok]

\* The caller's next n bytes: positions issued+1 .. issued+n of its stream.
Data(from, n) == [i \in 1..n |-> from + i]

-----------------------------------------------------------------------------
(* EmptyBuffer, env_files.h:114-126.  ok is the outcome of base_->Append   *)
(* should the code call it.                                                *)

\* Mutants of EmptyBufferOp.
EmptyBufferOp_CountsFailure(b, off, ok) ==
    IF Len(b) # 0
    THEN [buf    |-> IF ok THEN <<>> ELSE b,
          offset |-> off + Len(b),
          status |-> StatusOf(ok),
          calls  |-> <<Call("Append", b, ok)>>]
    ELSE [buf |-> b, offset |-> off, status |-> OK, calls |-> <<>>]

EmptyBufferOp_NoEmptyCheck(b, off, ok) ==
    [buf    |-> IF ok THEN <<>> ELSE b,
     offset |-> IF ok THEN off + Len(b) ELSE off,
     status |-> StatusOf(ok),
     calls  |-> <<Call("Append", b, ok)>>]

EmptyBufferOp_ClearsOnFailure(b, off, ok) ==
    IF Len(b) # 0
    THEN [buf    |-> <<>>,
          offset |-> IF ok THEN off + Len(b) ELSE off,
          status |-> StatusOf(ok),
          calls  |-> <<Call("Append", b, ok)>>]
    ELSE [buf |-> b, offset |-> off, status |-> OK, calls |-> <<>>]

EmptyBufferOp(b, off, ok) ==
    IF Len(b) # 0
    THEN IF ok
         THEN [buf    |-> <<>>,
               offset |-> off + Len(b),
               status |-> OK,
               calls  |-> <<Call("Append", b, TRUE)>>]
         ELSE [buf    |-> b,
               offset |-> off,
               status |-> IOError,
               calls  |-> <<Call("Append", b, FALSE)>>]
    ELSE [buf |-> b, offset |-> off, status |-> OK, calls |-> <<>>]

-----------------------------------------------------------------------------
(* Append, env_files.h:70-92.                                               *)

\* Mutants of LoopCond.
LoopCond_Exceeds(blen, clen, cap) == blen + clen > cap
LoopCond_OffByOne(blen, clen, cap) == blen + clen > cap + 1

\* while (buf_.size() + chunk.size() >= max_buf_size_)
LoopCond(blen, clen, cap) == blen + clen >= cap

\* size_t left = max_buf_size_ - buf_.size();
Left(cap, blen) == cap - blen

\* Mutant of BufAppend.
BufAppend_Prepends(b, d, n) == SubSeq(d, 1, n) \o b

\* buf_.append(d.data(), n)
BufAppend(b, d, n) == b \o SubSeq(d, 1, n)

\* chunk.remove_prefix(n)
RemovePrefix(chunk, n) == SubSeq(chunk, n + 1, Len(chunk))

\* The while loop.  failAt is the index, among the wrapped-writer calls this
\* Append makes, of the one that fails (0: none fails); the loop breaks at
\* the first failure, so one index describes every outcome.  The result
\* carries the unconsumed chunk and, after a failure, the number of its
\* leading bytes that the last top-off already copied into the buffer.
RECURSIVE AppendLoop(_, _, _, _, _, _)
AppendLoop(cap, b, off, chunk, cs, failAt) ==
    IF LoopCond(Len(b), Len(chunk), cap)
    THEN LET left == Left(cap, Len(b))
             r    == EmptyBufferOp(BufAppend(b, chunk, left), off,
                                   failAt # Len(cs) + 1)
         IN  IF r.status = OK
             THEN AppendLoop(cap, r.buf, r.offset, RemovePrefix(chunk, left),
                             cs \o r.calls, failAt)
             ELSE [buf |-> r.buf, offset |-> r.offset, status |-> r.status,
                   calls |-> cs \o r.calls, chunk |-> chunk, copied |-> left]
    ELSE [buf |-> b, offset |-> off, status |-> OK, calls |-> cs,
          chunk |-> chunk, copied |-> 0]

\* Mutant of AppendTail: the error return is missing.
AppendTail_BuffersAfterError(r) ==
    IF Len(r.chunk) # 0
    THEN [r EXCEPT !.buf = BufAppend(r.buf, RemovePrefix(r.chunk, r.copied),
                                     Len(r.chunk) - r.copied),
                   !.chunk = <<>>, !.copied = 0]
    ELSE r

\* The if/else chain after the loop, lines 83-91.
AppendTail(r) ==
    IF r.status # OK
    THEN r
    ELSE IF Len(r.chunk) # 0
         THEN [r EXCEPT !.buf = BufAppend(r.buf, r.chunk, Len(r.chunk)),
                        !.chunk = <<>>]
         ELSE r

AppendOp(cap, b, off, data, failAt) ==
    AppendTail(AppendLoop(cap, b, off, data, <<>>, failAt))

\* With max_buf_size_ = 0 the loop condition is always true and every
\* iteration copies 0 bytes and empties an empty buffer: the call never
\* returns, so it has no post-state.
LoopExits(cap) == cap > 0

-----------------------------------------------------------------------------
(* SyncBefore, Sync, Flush: env_files.h:94-112.                             *)

\* Mutants of Covered.
Covered_Strict(off, target) == off > target
Covered_OneShort(off, target) == off + 1 >= target

\* if (offset_ >= offset)
Covered(off, target) == off >= target

SyncBeforeOp(b, off, target, ok) ==
    IF Covered(off, target)
    THEN [buf |-> b, offset |-> off, status |-> OK, calls |-> <<>>]
    ELSE EmptyBufferOp(b, off, ok)

\* Mutant of SyncOp: the wrapped Sync is not guarded by s.ok().
SyncOp_AlwaysSyncs(b, off, ok, okSync) ==
    LET r == EmptyBufferOp(b, off, ok)
    IN  [r EXCEPT !.status = StatusOf(okSync),
                  !.calls = r.calls \o <<Call("Sync", <<>>, okSync)>>]

SyncOp(b, off, ok, okSync) ==
    LET r == EmptyBufferOp(b, off, ok)
    IN  IF r.status = OK
        THEN [r EXCEPT !.status = StatusOf(okSync),
                       !.calls = r.calls \o <<Call("Sync", <<>>, okSync)>>]
        ELSE r

\* Mutant of FlushOp: Flush empties the buffer.
FlushOp_Empties(b, off) == EmptyBufferOp(b, off, TRUE)

FlushOp(b, off) ==
    [buf |-> b, offset |-> off, status |-> OK, calls |-> <<>>]

\* Mutant of CloseOp: a failed EmptyBuffer ends Close before the writer is closed.
CloseOp_StopsOnError(b, off, ok, okClose) ==
    LET r == EmptyBufferOp(b, off, ok)
    IN  IF r.status = OK
        THEN [r EXCEPT !.calls = r.calls \o <<Call("Close", <<>>, okClose),
                                              Call("delete", <<>>, TRUE)>>]
        ELSE r

\* Mutant of CloseOp: the writer is closed but not deleted.
CloseOp_NoDelete(b, off, ok, okClose) ==
    LET r == EmptyBufferOp(b, off, ok)
    IN  [r EXCEPT !.calls = r.calls \o <<Call("Close", <<>>, okClose)>>]

\* Close, env_files.h:62-68: the result of base_->Close() is not used.
CloseOp(b, off, ok, okClose) ==
    LET r == EmptyBufferOp(b, off, ok)
    IN  [r EXCEPT !.calls = r.calls \o <<Call("Close", <<>>, okClose),
                                         Call("delete", <<>>, TRUE)>>]

-----------------------------------------------------------------------------
(* The wrapped writer, as seen through the calls made on it.                *)

RECURSIVE Accepted(_)
\* The bytes of the successful Appends among cs, in call order.
Accepted(cs) ==
    IF cs = <<>> THEN <<>>
    ELSE (IF Head(cs).fn = "Append" /\ Head(cs).ok THEN Head(cs).data ELSE <<>>)
         \o Accepted(Tail(cs))

AllSucceeded(cs) == \A i \in 1..Len(cs) : cs[i].ok

Count(cs, fn) == Cardinality({i \in 1..Len(cs) : cs[i].fn = fn})

-----------------------------------------------------------------------------
(* The state machine.                                                       *)

\* No Append call is in progress.
LpIdle == [pc |-> "idle", chunk |-> <<>>, n |-> 0, cs |-> <<>>, status |-> OK, copied |-> 0]

\* No call has been made through a NULL base_.
NoFault == [outcome |-> "none", fn |-> "none"]

\* Each specification constructs one decorator; the variables of the
\* others hold no object.
BufUnused ==
    /\ max_buf_size_ = 0 /\ buf_ = <<>> /\ offset_ = 0 /\ base_ = "NULL"
    /\ destroyed = TRUE /\ op = "unused" /\ arg = 0 /\ ret = OK /\ calls = <<>>
    /\ prev = [op |-> "none", arg |-> 0, ret |-> OK, ncalls |-> 0]
    /\ wrapped = <<>> /\ issued = 0 /\ allOk = TRUE /\ discarded = {}
    /\ baseCloses = 0 /\ baseDeletes = 0
    /\ lp = LpIdle /\ fault = NoFault

MeasUnused ==
    /\ focus = "unused" /\ mw = "unused" /\ ms = "unused"
    /\ mlast = "unused" /\ mwHist = "unused" /\ msHist = "unused"

AtomUnused ==
    /\ am = "unused" /\ apc = "unused" /\ alen = "unused"
    /\ aleft = "unused" /\ amHist = "unused"

WholeUnused ==
    /\ wf = "unused" /\ wsrc = "unused" /\ wphase = "unused" /\ wlast = "unused"

Init ==
    /\ MeasUnused /\ AtomUnused /\ WholeUnused
    /\ max_buf_size_ \in 0..MaxCap
    /\ buf_ = <<>>
    /\ offset_ = 0
    /\ base_ = "base"
    /\ destroyed = FALSE
    /\ op = "new"
    /\ arg = 0
    /\ ret = OK
    /\ calls = <<>>
    /\ prev = [op |-> "none", arg |-> 0, ret |-> OK, ncalls |-> 0]
    /\ wrapped = <<>>
    /\ issued = 0
    /\ allOk = TRUE
    /\ discarded = {}
    /\ baseCloses = 0
    /\ baseDeletes = 0
    /\ lp = LpIdle
    /\ fault = NoFault

\* The caller may use the writer: it exists and has not been closed.
Live == ~destroyed /\ base_ # "NULL"

\* What every operation does to the record of the last call and to the
\* history, given the operation's name, argument and outcome r.
Effect(name, a, r) ==
    /\ buf_' = r.buf
    /\ offset_' = r.offset
    /\ op' = name
    /\ arg' = a
    /\ ret' = r.status
    /\ calls' = r.calls
    /\ prev' = [op |-> op, arg |-> arg, ret |-> ret, ncalls |-> Len(calls)]
    /\ wrapped' = wrapped \o Accepted(r.calls)
    /\ allOk' = (allOk /\ AllSucceeded(r.calls))
    /\ baseCloses' = baseCloses + Count(r.calls, "Close")
    /\ baseDeletes' = baseDeletes + Count(r.calls, "delete")
    /\ UNCHANGED <<max_buf_size_, measVars, atomVars, wholeVars>>

\* An operation called as a whole, through a base_ that is there.
Record(name, a, r) == Effect(name, a, r) /\ UNCHANGED <<lp, fault>>

\* Append (the name Append is taken by Sequences).  Every wrapped-writer
\* call of the loop carries a full buffer, so the loop makes at most
\* (buf_.size() + n) / max_buf_size_ calls and failAt ranges over them.
AppendCall ==
    /\ Live
    /\ LoopExits(max_buf_size_)
    /\ \E n \in 0..MaxLen :
       \E failAt \in 0..((Len(buf_) + n) \div max_buf_size_) :
         /\ issued + n <= MaxTotal
         /\ LET r == AppendOp(max_buf_size_, buf_, offset_, Data(issued, n), failAt)
            IN  /\ Record("Append", n, r)
                /\ issued' = issued + n
                /\ discarded' = discarded \cup
                      (IF r.status = OK THEN {}
                       ELSE Range(RemovePrefix(r.chunk, r.copied)))
    /\ UNCHANGED <<base_, destroyed>>

EmptyBuffer ==
    /\ Live
    /\ \E ok \in BOOLEAN :
         Record("EmptyBuffer", 0, EmptyBufferOp(buf_, offset_, ok))
    /\ UNCHANGED <<base_, destroyed, issued, discarded>>

SyncBefore ==
    /\ Live
    /\ \E target \in 0..(MaxTotal + 1), ok \in BOOLEAN :
         Record("SyncBefore", target, SyncBeforeOp(buf_, offset_, target, ok))
    /\ UNCHANGED <<base_, destroyed, issued, discarded>>

Sync ==
    /\ Live
    /\ \E ok \in BOOLEAN, okSync \in BOOLEAN :
         Record("Sync", 0, SyncOp(buf_, offset_, ok, okSync))
    /\ UNCHANGED <<base_, destroyed, issued, discarded>>

Flush ==
    /\ Live
    /\ Record("Flush", 0, FlushOp(buf_, offset_))
    /\ UNCHANGED <<base_, destroyed, issued, discarded>>

Close ==
    /\ Live
    /\ \E ok \in BOOLEAN, okClose \in BOOLEAN :
         Record("Close", 0, CloseOp(buf_, offset_, ok, okClose))
    /\ base_' = "NULL"
    /\ UNCHANGED <<destroyed, issued, discarded>>

\* Mutant of Destroy: the destructor empties the buffer before it closes.
Destroy_EmptiesFirst ==
    /\ ~destroyed
    /\ fault.outcome # "crash"
    /\ \E ok \in BOOLEAN, okClose \in BOOLEAN :
         Record("Destroy", 0,
                IF base_ # "NULL"
                THEN CloseOp(buf_, offset_, ok, okClose)
                ELSE [buf |-> buf_, offset |-> offset_, status |-> OK,
                      calls |-> <<>>])
    /\ destroyed' = TRUE
    /\ UNCHANGED <<base_, issued, discarded>>

\* ~UnsafeBufferedWritableFile, env_files.h:55-60.
Destroy ==
    /\ ~destroyed
    /\ fault.outcome # "crash"
    /\ \E okClose \in BOOLEAN :
         Record("Destroy", 0,
                [buf |-> buf_, offset |-> offset_, status |-> OK,
                 calls |-> IF base_ # "NULL"
                           THEN <<Call("Close", <<>>, okClose),
                                  Call("delete", <<>>, TRUE)>>
                           ELSE <<>>])
    /\ destroyed' = TRUE
    /\ UNCHANGED <<base_, issued, discarded>>

Next ==
    \/ AppendCall
    \/ EmptyBuffer
    \/ SyncBefore
    \/ Sync
    \/ Flush
    \/ Close
    \/ Destroy

Spec == Init /\ [][Next]_vars

-----------------------------------------------------------------------------
(* Properties of UnsafeBufferedWritableFile.                                *)

\* The bytes passed to the wrapped writer in the calls cs, accepted or not.
CallBytes(cs) == UNION {Range(cs[i].data) : i \in 1..Len(cs)}

\* What one EmptyBuffer does, stated on a step: nothing with an empty
\* buffer; otherwise one wrapped Append of the whole buffer, which on success
\* moves the buffer to the writer and on failure changes nothing.
EmptyBufferEffect ==
    IF buf_ = <<>>
    THEN ret' = OK /\ calls' = <<>> /\ buf_' = buf_ /\ offset_' = offset_
    ELSE /\ Len(calls') = 1
         /\ calls'[1].fn = "Append"
         /\ calls'[1].data = buf_
         /\ IF calls'[1].ok
            THEN ret' = OK /\ buf_' = <<>> /\ offset_' = offset_ + Len(buf_)
            ELSE ret' = IOError /\ buf_' = buf_ /\ offset_' = offset_

\* C1: in every reachable state the buffer holds at most max_buf_size_ bytes,
\* whatever the wrapped writer answers.
C1_BufferWithinCapacity == Len(buf_) <= max_buf_size_

\* A failed buffer-empty inside Append left a full buffer of 2 or more bytes.
C1_Witness ==
    /\ op = "Append" /\ ret = IOError
    /\ max_buf_size_ >= 2 /\ Len(buf_) = max_buf_size_

\* C2: offset_ equals the number of bytes of the wrapped writer's successful
\* Appends, no step decreases it, and a failed Append advances it by exactly
\* the chunks the writer accepted before the failure.
C2_OffsetCountsAccepted ==
    /\ [](offset_ = Len(wrapped))
    /\ [][/\ offset_' >= offset_
          /\ (op' = "Append" /\ ret' # OK) =>
                 offset_' = offset_ + Len(Accepted(calls'))]_vars

\* An Append failed at its second chunk: the offset counts the first chunk,
\* and is less than the bytes accepted from the caller.
C2_Witness ==
    /\ op = "Append" /\ ret = IOError /\ Len(calls) >= 2
    /\ offset_ > 0 /\ offset_ < issued

\* C3: while every wrapped-writer call has succeeded, the bytes the writer
\* accepted followed by the buffer are the caller's stream, in order.
C3_NoLossNoReorder == allOk => wrapped \o buf_ = Data(0, issued)

\* An Append split over two buffer-empties with a remainder left buffered.
C3_Witness ==
    /\ allOk /\ op = "Append" /\ Len(calls) >= 2
    /\ Len(buf_) >= 1 /\ Len(wrapped) >= 2

\* C4 as stated: an Append that brings the buffer to exactly the capacity
\* keeps every byte buffered, calls nothing and leaves the offset alone.
C4_ExactFillStaysBuffered ==
    [][(op' = "Append" /\ Len(buf_) + arg' = max_buf_size_) =>
          /\ calls' = <<>>
          /\ offset_' = offset_
          /\ buf_' = buf_ \o Data(issued, arg')]_vars

\* C4 amended: an Append that brings the buffer to exactly the capacity tops
\* the buffer off and empties it in the same call, with one wrapped Append of
\* max_buf_size_ bytes; accepted, the offset grows by the capacity and the
\* buffer is empty, refused, the full buffer stays and the offset is unchanged.
C4_ExactFillForcesEmpty ==
    [][(op' = "Append" /\ Len(buf_) + arg' = max_buf_size_) =>
          /\ Len(calls') = 1
          /\ calls'[1].fn = "Append"
          /\ calls'[1].data = buf_ \o Data(issued, arg')
          /\ IF calls'[1].ok
             THEN ret' = OK /\ buf_' = <<>>
                  /\ offset_' = offset_ + max_buf_size_
             ELSE ret' = IOError /\ buf_' = calls'[1].data
                  /\ offset_' = offset_]_vars

\* Two Appends that together fill the buffer exactly (the shape of 7 then 3
\* with capacity 10): the second one emptied the buffer.
C4_Witness ==
    /\ op = "Append" /\ prev.op = "Append"
    /\ arg > 0 /\ prev.arg > 0 /\ prev.arg + arg = max_buf_size_
    /\ issued = max_buf_size_
    /\ ret = OK /\ buf_ = <<>> /\ offset_ = max_buf_size_

\* C5: Flush returns OK, calls nothing on the wrapped writer and changes
\* neither the buffer nor the offset.
C5_FlushInert ==
    [][op' = "Flush" =>
          /\ ret' = OK
          /\ calls' = <<>>
          /\ buf_' = buf_
          /\ offset_' = offset_
          /\ wrapped' = wrapped]_vars

\* Flush was called with bytes in the buffer and bytes already handed off.
C5_Witness == op = "Flush" /\ Len(buf_) > 0 /\ offset_ > 0

\* C6: the wrapped Sync is called only by Sync, as its last call and only
\* after the buffer-empty step succeeded; when that step fails Sync returns
\* the failure and the wrapped Sync is not called.
C6_SyncOnlyAfterEmpty ==
    /\ \A i \in 1..Len(calls) :
          calls[i].fn = "Sync" =>
             /\ op = "Sync"
             /\ i = Len(calls)
             /\ \A j \in 1..(i - 1) : calls[j].ok
    /\ (op = "Sync" /\ calls # <<>> /\ ~calls[1].ok /\ calls[1].fn = "Append") =>
          (ret = IOError /\ Len(calls) = 1)

\* Sync whose buffer-empty step failed.
C6_Witness ==
    /\ op = "Sync" /\ ret = IOError
    /\ Len(calls) = 1 /\ calls[1].fn = "Append" /\ ~calls[1].ok

\* C7: SyncBefore(target) with offset_ >= target returns OK, calls nothing
\* and changes nothing; with offset_ < target it does what EmptyBuffer does.
C7_SyncBeforeCases ==
    [][op' = "SyncBefore" =>
          IF offset_ >= arg'
          THEN ret' = OK /\ calls' = <<>> /\ buf_' = buf_ /\ offset_' = offset_
          ELSE EmptyBufferEffect]_vars

\* SyncBefore of a covered, non-zero offset returned with bytes still buffered.
C7_Witness ==
    /\ op = "SyncBefore" /\ arg > 0 /\ offset_ >= arg
    /\ calls = <<>> /\ Len(buf_) > 0

\* C8 as stated: two SyncBefore(x) in a row both succeed, the second calls
\* nothing, and together they make at most one wrapped Append.
C8_TwiceAlwaysSucceeds ==
    (op = "SyncBefore" /\ prev.op = "SyncBefore" /\ prev.arg = arg) =>
        /\ prev.ret = OK
        /\ ret = OK
        /\ calls = <<>>
        /\ prev.ncalls + Len(calls) <= 1

\* C8 amended: when the first of two SyncBefore(x) in a row returns success,
\* the second returns success and calls nothing on the wrapped writer, and
\* the two together make at most one wrapped Append.
C8_TwiceAfterSuccess ==
    (op = "SyncBefore" /\ prev.op = "SyncBefore" /\ prev.arg = arg
       /\ prev.ret = OK) =>
        /\ ret = OK
        /\ calls = <<>>
        /\ prev.ncalls + Len(calls) <= 1

\* The first SyncBefore(x) emptied the buffer and the offset still does not
\* cover x when the second one returns.
C8_Witness ==
    /\ op = "SyncBefore" /\ prev.op = "SyncBefore" /\ prev.arg = arg
    /\ prev.ret = OK /\ prev.ncalls = 1 /\ offset_ < arg

\* C9: an Append whose buffer-empty step fails returns the failure with the
\* failed call as its last call, keeps the topped-off buffer, and drops the
\* input bytes not yet copied into the buffer; no dropped byte is ever in
\* the buffer or in a call on the wrapped writer afterwards.
C9_RemainderDiscarded ==
    /\ [](discarded \cap (Range(buf_) \cup Range(wrapped) \cup CallBytes(calls)) = {})
    /\ [][(op' = "Append" /\ ret' # OK) =>
            LET k     == Len(calls')
                data  == Data(issued, arg')
                moved == k * max_buf_size_ - Len(buf_)
            IN  /\ k >= 1
                /\ ~calls'[k].ok
                /\ \A i \in 1..(k - 1) : calls'[i].ok
                /\ buf_' = calls'[k].data
                /\ Accepted(calls') \o buf_' = buf_ \o SubSeq(data, 1, moved)
                /\ discarded' = discarded \cup {data[i] : i \in (moved + 1)..arg'}]_vars

\* An Append failed at its second chunk and dropped input bytes.
C9_Witness ==
    /\ op = "Append" /\ ret = IOError /\ Len(calls) >= 2
    /\ discarded # {}

\* C10: EmptyBuffer with a non-empty buffer makes one wrapped Append of the
\* whole buffer; accepted, the offset grows by the buffer length and the
\* buffer is cleared; refused, buffer and offset stay and the failure is
\* returned.  With an empty buffer it returns OK and calls nothing.
C10_EmptyBuffer == [][op' = "EmptyBuffer" => EmptyBufferEffect]_vars

\* EmptyBuffer failed and the buffer still holds its bytes.
C10_Witness == op = "EmptyBuffer" /\ ret = IOError /\ Len(buf_) > 0

\* C11: Close closes and deletes the wrapped writer, once each, whether or
\* not its EmptyBuffer succeeded, and returns that EmptyBuffer's result; after
\* a failed one the bytes still buffered never reach the wrapped writer.
C11_CloseAlwaysCloses ==
    /\ op = "Close" =>
          LET k == Len(calls)
          IN  /\ k \in {2, 3}
              /\ calls[k - 1].fn = "Close"
              /\ calls[k].fn = "delete"
              /\ Count(calls, "Close") = 1 /\ Count(calls, "delete") = 1
              /\ base_ = "NULL"
              /\ IF k = 3
                 THEN calls[1].fn = "Append" /\ ret = StatusOf(calls[1].ok)
                 ELSE ret = OK
              /\ (ret = OK) = (buf_ = <<>>)
    /\ base_ = "NULL" =>
          /\ Range(buf_) \cap Range(wrapped) = {}
          /\ op = "Destroy" => calls = <<>>

\* Close whose EmptyBuffer failed: the writer was closed and deleted, and the
\* bytes are still in the buffer.
C11_Witness ==
    /\ op = "Close" /\ ret = IOError /\ Len(buf_) > 0
    /\ baseCloses = 1 /\ baseDeletes = 1

\* C12: whenever a call on the wrapped writer fails inside an operation that
\* returns a Status, the operation returns the failure.
C12_FailuresReachCaller ==
    op \in {"Append", "EmptyBuffer", "SyncBefore", "Sync", "Close"} =>
        \A i \in 1..Len(calls) : ~calls[i].ok => ret = IOError

-----------------------------------------------------------------------------
(* MeasuredWritableFile and MeasuredSequentialFile, env_files.h:139-269.    *)
(* The base is not owned: base_ is "NULL" or names one of two files.  Each  *)
(* call on the base succeeds or fails, chosen nondeterministically.         *)
(* num_syncs_ and num_flushes_ are uint32_t and wrap; bytes_ and ops_ are   *)
(* uint64_t, which no run can exhaust, and are kept as unbounded numbers.   *)
(* A uint32_t is held as its two 16-bit halves, [hi, lo], since the checker *)
(* has no numbers of that size; a history count is held the same way with   *)
(* an unbounded hi.                                                         *)

\* Successful operations of one kind counted in a run.
MaxCount == 2
\* Longest data passed to Append, largest n passed to Read and Skip.
MaxData == 2

\* 2^16: a uint32_t is hi * Half + lo with hi, lo \in 0..Half-1.
Half == 256 * 256

Zero32 == [hi |-> 0, lo |-> 0]
\* UINT32_MAX
Max32 == [hi |-> Half - 1, lo |-> Half - 1]

\* For a history count: x + 1, without a width.
Succ(x) == IF x.lo = Half - 1 THEN [hi |-> x.hi + 1, lo |-> 0]
           ELSE [x EXCEPT !.lo = @ + 1]

\* x < y and x <= y on numbers held as halves.
Less(x, y) == x.hi < y.hi \/ (x.hi = y.hi /\ x.lo < y.lo)
AtMost(x, y) == x = y \/ Less(x, y)

NULL == "NULL"
Disconnected == "Disconnected"
Bases == {"f1", "f2"}

\* x++ on a uint32_t: the carry out of the high half is lost.
Inc32(x) == IF x.lo = Half - 1 THEN [hi |-> (x.hi + 1) % Half, lo |-> 0]
            ELSE [x EXCEPT !.lo = @ + 1]

\* One call on the base file, as recorded in mlast.calls.
BaseCall(target, fn, ok) == [target |-> target, fn |-> fn, ok |-> ok]

\* The outcome of an operation: the object after it, the Status returned,
\* the calls made on the base.
Outcome(c, status, cs) == [obj |-> c, status |-> status, calls |-> cs]

\* Mutant of MwResetOp: num_flushes_ is not cleared.
MwResetOp_KeepsFlushes(c, base) ==
    [base_ |-> base, num_syncs_ |-> Zero32, num_flushes_ |-> c.num_flushes_,
     bytes_ |-> 0, ops_ |-> 0]

\* MeasuredWritableFile::Reset, lines 196-200 (the constructor calls it).
MwResetOp(c, base) ==
    [base_ |-> base, num_syncs_ |-> Zero32, num_flushes_ |-> Zero32,
     bytes_ |-> 0, ops_ |-> 0]

\* MeasuredWritableFile::Flush, lines 145-155.
MwFlushOp(c, ok) ==
    IF c.base_ = NULL
    THEN Outcome(c, Disconnected, <<>>)
    ELSE Outcome(IF ok THEN [c EXCEPT !.num_flushes_ = Inc32(@)] ELSE c,
                 StatusOf(ok), <<BaseCall(c.base_, "Flush", ok)>>)

\* MeasuredWritableFile::Sync, lines 158-168.
MwSyncOp(c, ok) ==
    IF c.base_ = NULL
    THEN Outcome(c, Disconnected, <<>>)
    ELSE Outcome(IF ok THEN [c EXCEPT !.num_syncs_ = Inc32(@)] ELSE c,
                 StatusOf(ok), <<BaseCall(c.base_, "Sync", ok)>>)

\* Mutant of MwAppendOp: a disconnected Append is counted.
MwAppendOp_CountsDisconnected(c, n, ok) ==
    IF c.base_ = NULL
    THEN Outcome([c EXCEPT !.ops_ = @ + 1], Disconnected, <<>>)
    ELSE Outcome(IF ok THEN [c EXCEPT !.bytes_ = @ + n, !.ops_ = @ + 1] ELSE c,
                 StatusOf(ok), <<BaseCall(c.base_, "Append", ok)>>)

\* MeasuredWritableFile::Append, lines 176-187; n is data.size().
MwAppendOp(c, n, ok) ==
    IF c.base_ = NULL
    THEN Outcome(c, Disconnected, <<>>)
    ELSE Outcome(IF ok THEN [c EXCEPT !.bytes_ = @ + n, !.ops_ = @ + 1] ELSE c,
                 StatusOf(ok), <<BaseCall(c.base_, "Append", ok)>>)

\* Mutant of MwCloseOp: a base whose Close failed stays attached.
MwCloseOp_KeepsOnFailure(c, ok) ==
    IF c.base_ # NULL
    THEN Outcome(IF ok THEN [c EXCEPT !.base_ = NULL] ELSE c, StatusOf(ok),
                 <<BaseCall(c.base_, "Close", ok)>>)
    ELSE Outcome(c, OK, <<>>)

\* MeasuredWritableFile::Close, lines 203-211.
MwCloseOp(c, ok) ==
    IF c.base_ # NULL
    THEN Outcome([c EXCEPT !.base_ = NULL], StatusOf(ok),
                 <<BaseCall(c.base_, "Close", ok)>>)
    ELSE Outcome(c, OK, <<>>)

\* MeasuredSequentialFile::Reset, lines 260-263.
MsResetOp(c, base) == [base_ |-> base, bytes_ |-> 0, ops_ |-> 0]

\* Mutant of MsReadOp: the requested n is counted, not result->size().
MsReadOp_CountsRequested(c, n, ok, got) ==
    IF c.base_ = NULL
    THEN Outcome(c, Disconnected, <<>>)
    ELSE Outcome(IF ok THEN [c EXCEPT !.bytes_ = @ + n, !.ops_ = @ + 1] ELSE c,
                 StatusOf(ok), <<BaseCall(c.base_, "Read", ok)>>)

\* MeasuredSequentialFile::Read, lines 231-242; got is result->size() as the
\* base left it.
MsReadOp(c, n, ok, got) ==
    IF c.base_ = NULL
    THEN Outcome(c, Disconnected, <<>>)
    ELSE Outcome(IF ok THEN [c EXCEPT !.bytes_ = @ + got, !.ops_ = @ + 1] ELSE c,
                 StatusOf(ok), <<BaseCall(c.base_, "Read", ok)>>)

\* MeasuredSequentialFile::Skip, lines 245-251.
MsSkipOp(c, n, ok) ==
    IF c.base_ = NULL
    THEN Outcome(c, Disconnected, <<>>)
    ELSE Outcome(c, StatusOf(ok), <<BaseCall(c.base_, "Skip", ok)>>)

\* The record of the last operation.
Last(obj, name, a, r, got, before) ==
    [obj |-> obj, op |-> name, arg |-> a, ret |-> r.status, calls |-> r.calls,
     got |-> got, before |-> before]

NoHist == [appends |-> 0, bytes |-> 0, flushes |-> Zero32, syncs |-> Zero32]

\* A counted operation may succeed while its count stays within MaxCount of
\* where a run starts: 0, or the last value a uint32_t holds.
InWindow(h) ==
    \/ h.hi = 0 /\ h.lo < MaxCount
    \/ h = Max32
    \/ h.hi = Half /\ h.lo < MaxCount - 1

\* Max32 - 1
BeforeMax32 == [hi |-> Half - 1, lo |-> Half - 2]

\* The fields as the constructors find them: any values.
MwRaws ==
    {[base_ |-> b, num_syncs_ |-> x, num_flushes_ |-> x, bytes_ |-> n, ops_ |-> n] :
        b \in {NULL, "f2"}, x \in {Zero32, Max32}, n \in {0, 1}}

MsRaws == {[base_ |-> b, bytes_ |-> n, ops_ |-> n] : b \in {NULL, "f2"}, n \in {0, 1}}

\* A run starts with freshly constructed decorators, or with the writable
\* one after 2^32 - 1 successful Flush calls followed by as many Syncs.
MeasInit ==
    /\ BufUnused /\ AtomUnused /\ WholeUnused
    /\ focus \in {"writable", "sequential"}
    /\ \E raw \in MsRaws : ms = MsResetOp(raw, "f1")
    /\ msHist = [reads |-> 0, bytes |-> 0]
    /\ \E raw \in MwRaws :
         \/ /\ mw = MwResetOp(raw, "f1")
            /\ mwHist = NoHist
            /\ mlast = Last("both", "new", 0, Outcome(0, OK, <<>>), 0, mw)
         \/ /\ focus = "writable"
            /\ mw = [MwResetOp(raw, "f1") EXCEPT !.num_flushes_ = Max32,
                                                !.num_syncs_ = Max32]
            /\ mwHist = [NoHist EXCEPT !.flushes = Max32, !.syncs = Max32]
            /\ mlast = Last("writable", "Sync", 0,
                            Outcome(0, OK, <<BaseCall("f1", "Sync", TRUE)>>), 0,
                            [mw EXCEPT !.num_syncs_ = BeforeMax32])

\* The effect of an operation on the writable decorator.
MwRecord(name, a, r) ==
    /\ mw' = r.obj
    /\ mlast' = Last("writable", name, a, r, 0, mw)
    /\ UNCHANGED <<focus, ms, msHist, bufVars, atomVars, wholeVars>>

\* The effect of an operation on the sequential decorator.
MsRecord(name, a, r, got) ==
    /\ ms' = r.obj
    /\ mlast' = Last("sequential", name, a, r, got, ms)
    /\ UNCHANGED <<focus, mw, mwHist, bufVars, atomVars, wholeVars>>

MwAppend ==
    /\ focus = "writable"
    /\ \E n \in 0..MaxData, ok \in BOOLEAN :
         LET r == MwAppendOp(mw, n, ok)
         IN  /\ r.status = OK => mwHist.appends < MaxCount
             /\ MwRecord("Append", n, r)
             /\ mwHist' = IF r.status = OK
                          THEN [mwHist EXCEPT !.appends = @ + 1, !.bytes = @ + n]
                          ELSE mwHist

MwFlush ==
    /\ focus = "writable"
    /\ \E ok \in BOOLEAN :
         LET r == MwFlushOp(mw, ok)
         IN  /\ r.status = OK => InWindow(mwHist.flushes)
             /\ MwRecord("Flush", 0, r)
             /\ mwHist' = IF r.status = OK
                          THEN [mwHist EXCEPT !.flushes = Succ(@)]
                          ELSE mwHist

MwSync ==
    /\ focus = "writable"
    /\ \E ok \in BOOLEAN :
         LET r == MwSyncOp(mw, ok)
         IN  /\ r.status = OK => InWindow(mwHist.syncs)
             /\ MwRecord("Sync", 0, r)
             /\ mwHist' = IF r.status = OK
                          THEN [mwHist EXCEPT !.syncs = Succ(@)]
                          ELSE mwHist

MwClose ==
    /\ focus = "writable"
    /\ \E ok \in BOOLEAN :
         /\ MwRecord("Close", 0, MwCloseOp(mw, ok))
         /\ UNCHANGED mwHist

MwReset ==
    /\ focus = "writable"
    /\ \E b \in Bases \cup {NULL} :
         /\ MwRecord("Reset", b, Outcome(MwResetOp(mw, b), OK, <<>>))
         /\ mwHist' = NoHist

MsRead ==
    /\ focus = "sequential"
    /\ \E n \in 0..MaxData, ok \in BOOLEAN :
       \E got \in 0..n :
         LET r == MsReadOp(ms, n, ok, got)
         IN  /\ r.status = OK => msHist.reads < MaxCount
             /\ MsRecord("Read", n, r, IF r.status = OK THEN got ELSE 0)
             /\ msHist' = IF r.status = OK
                          THEN [reads |-> msHist.reads + 1,
                                bytes |-> msHist.bytes + got]
                          ELSE msHist

MsSkip ==
    /\ focus = "sequential"
    /\ \E n \in 0..MaxData, ok \in BOOLEAN :
         /\ MsRecord("Skip", n, MsSkipOp(ms, n, ok), 0)
         /\ UNCHANGED msHist

MsReset ==
    /\ focus = "sequential"
    /\ \E b \in Bases \cup {NULL} :
         /\ MsRecord("Reset", b, Outcome(MsResetOp(ms, b), OK, <<>>), 0)
         /\ msHist' = [reads |-> 0, bytes |-> 0]

MeasNext ==
    \/ MwAppend
    \/ MwFlush
    \/ MwSync
    \/ MwClose
    \/ MwReset
    \/ MsRead
    \/ MsSkip
    \/ MsReset

SpecMeasured == MeasInit /\ [][MeasNext]_vars

-----------------------------------------------------------------------------
(* Properties of the measurement decorators.                                *)

\* The decorator the last operation was called on, as it is now.
Measured == IF mlast.obj = "sequential" THEN ms ELSE mw

C14_CountersMatchHistory ==
    focus = "writable" =>
        /\ mw.bytes_ = mwHist.bytes
        /\ mw.ops_ = mwHist.appends
        /\ mw.num_flushes_ = mwHist.flushes
        /\ mw.num_syncs_ = mwHist.syncs
        /\ (mlast.op \in {"Append", "Flush", "Sync"} /\ mlast.ret # OK) =>
              mw = mlast.before

\* C15: a successful Read adds result->size() to bytes_ and 1 to ops_, a
\* failed Read changes nothing, and Skip changes nothing and returns what
\* the base returned.
C15_SequentialCounts ==
    mlast.obj = "sequential" =>
        /\ (mlast.op = "Read" /\ mlast.ret = OK) =>
              ms = [mlast.before EXCEPT !.bytes_ = @ + mlast.got, !.ops_ = @ + 1]
        /\ (mlast.op = "Read" /\ mlast.ret # OK) => ms = mlast.before
        /\ mlast.op = "Skip" =>
              /\ ms = mlast.before
              /\ mlast.before.base_ # NULL =>
                    /\ Len(mlast.calls) = 1
                    /\ mlast.calls[1].fn = "Skip"
                    /\ mlast.ret = StatusOf(mlast.calls[1].ok)

\* A successful Read that returned fewer bytes than requested.
C15_Witness ==
    /\ mlast.obj = "sequential" /\ mlast.op = "Read" /\ mlast.ret = OK
    /\ mlast.got > 0 /\ mlast.got < mlast.arg /\ ms.ops_ = 2

\* C16: Reset(new_base) leaves every counter at zero and base_ = new_base
\* whatever the state before; only Reset and Close change base_, and every
\* call goes to the base_ of the moment; a new decorator counts zero.
C16_ResetZeroes ==
    /\ mlast.op = "Reset" =>
          /\ Measured.base_ = mlast.arg
          /\ Measured.bytes_ = 0 /\ Measured.ops_ = 0
          /\ mlast.obj = "writable" =>
                mw.num_flushes_ = Zero32 /\ mw.num_syncs_ = Zero32
    /\ mlast.op = "new" =>
          /\ mw.bytes_ = 0 /\ mw.ops_ = 0
          /\ mw.num_flushes_ = Zero32 /\ mw.num_syncs_ = Zero32
          /\ ms.bytes_ = 0 /\ ms.ops_ = 0
    /\ mlast.op \notin {"Reset", "Close", "new"} =>
          Measured.base_ = mlast.before.base_
    /\ \A i \in 1..Len(mlast.calls) :
          mlast.calls[i].target = mlast.before.base_

\* Reset of a disconnected writable decorator with non-zero counters to
\* another base.
C16_Witness ==
    /\ mlast.obj = "writable" /\ mlast.op = "Reset" /\ mlast.arg = "f2"
    /\ mlast.before.base_ = NULL
    /\ mlast.before.ops_ > 0 /\ mlast.before.num_flushes_ # Zero32

\* C17: between two Resets no operation decreases a counter.
C17_CountersNeverDecrease ==
    /\ (mlast.obj = "writable" /\ mlast.op # "Reset") =>
          /\ mlast.before.bytes_ <= mw.bytes_
          /\ mlast.before.ops_ <= mw.ops_
          /\ AtMost(mlast.before.num_flushes_, mw.num_flushes_)
          /\ AtMost(mlast.before.num_syncs_, mw.num_syncs_)
    /\ (mlast.obj = "sequential" /\ mlast.op # "Reset") =>
          /\ mlast.before.bytes_ <= ms.bytes_
          /\ mlast.before.ops_ <= ms.ops_

-----------------------------------------------------------------------------
(* AtomicMeasuredRandomAccessFile, env_files.h:271-295.  The header only    *)
(* declares it; Read and the counters of Rep follow the design document:    *)
(* the counting of MeasuredSequentialFile::Read, each counter updated by an *)
(* atomic fetch-and-add, no lock around the two updates.  A Read is three   *)
(* steps of its thread: the base Read, the add to bytes, the add to ops.    *)

\* Threads reading concurrently.
NThreads == 2
\* Reads each thread issues.
ReadsEach == 2
\* Largest length a base Read returns.
MaxGot == 2

Threads == 1..NThreads

\* Mutant of FetchAdd: the counter is stored, not added to.
FetchAdd_Stores(counter, n) == n

\* counter.fetch_add(n)
FetchAdd(counter, n) == counter + n

AtomInit ==
    /\ BufUnused /\ MeasUnused /\ WholeUnused
    /\ am = [bytes |-> 0, ops |-> 0]
    /\ apc = [t \in Threads |-> "idle"]
    /\ alen = [t \in Threads |-> 0]
    /\ aleft = [t \in Threads |-> ReadsEach]
    /\ amHist = [reads |-> 0, bytes |-> 0, failed |-> 0]

\* Thread t calls Read: the base Read returns, with got bytes or a failure.
AmBaseRead(t) ==
    /\ apc[t] = "idle" /\ aleft[t] > 0
    /\ \E ok \in BOOLEAN, got \in 1..MaxGot :
         IF ok
         THEN /\ apc' = [apc EXCEPT ![t] = "bytes"]
              /\ alen' = [alen EXCEPT ![t] = got]
              /\ amHist' = [amHist EXCEPT !.reads = @ + 1, !.bytes = @ + got]
              /\ UNCHANGED aleft
         ELSE /\ aleft' = [aleft EXCEPT ![t] = @ - 1]
              /\ amHist' = [amHist EXCEPT !.failed = @ + 1]
              /\ UNCHANGED <<apc, alen>>
    /\ UNCHANGED <<am, bufVars, measVars, wholeVars>>

AmAddBytes(t) ==
    /\ apc[t] = "bytes"
    /\ am' = [am EXCEPT !.bytes = FetchAdd(@, alen[t])]
    /\ apc' = [apc EXCEPT ![t] = "ops"]
    /\ UNCHANGED <<alen, aleft, amHist, bufVars, measVars, wholeVars>>

AmAddOps(t) ==
    /\ apc[t] = "ops"
    /\ am' = [am EXCEPT !.ops = FetchAdd(@, 1)]
    /\ apc' = [apc EXCEPT ![t] = "idle"]
    /\ aleft' = [aleft EXCEPT ![t] = @ - 1]
    /\ UNCHANGED <<alen, amHist, bufVars, measVars, wholeVars>>

AtomNext ==
    \/ \E t \in Threads : AmBaseRead(t)
    \/ \E t \in Threads : AmAddBytes(t)
    \/ \E t \in Threads : AmAddOps(t)

SpecAtomic == AtomInit /\ [][AtomNext]_vars

\* Every Read of every thread has returned.
AllReturned == \A t \in Threads : apc[t] = "idle" /\ aleft[t] = 0

\* C18: once all Reads have returned, ops counts the successful Reads and
\* bytes the lengths they returned; with a base that never failed, ops is
\* the number of Reads issued.
C18_NoLostUpdate ==
    AllReturned =>
        /\ am.ops = amHist.reads
        /\ am.bytes = amHist.bytes
        /\ amHist.failed = 0 => am.ops = NThreads * ReadsEach

\* All Reads returned, none failed, all of the same length.
C18_Witness ==
    /\ AllReturned /\ amHist.failed = 0
    /\ am.ops = NThreads * ReadsEach
    /\ am.bytes = NThreads * ReadsEach * MaxGot

-----------------------------------------------------------------------------
(* WholeFileBufferedRandomAccessFile, env_files.h:302-341.  Read is in the  *)
(* header; Load is only declared there and follows the design document:     *)
(* read chunks of the I/O size from the sequential source into the buffer   *)
(* until the buffer is at capacity or a read comes back short or empty; a   *)
(* failed read ends Load with what was loaded so far.  The source's k-th    *)
(* byte is the number k.                                                     *)

\* Largest capacity (max_buf_size_).
MaxBuf == 3
\* Largest I/O chunk size (io_size_).
MaxIo == 3
\* Longest source.
MaxSrc == 4

\* Contents new char[] may hold: never a byte of the source.
Junk == {0, -1}

Smaller(a, b) == IF a < b THEN a ELSE b

\* Slice(p + offset, n) over the array buf: n bytes from offset on.
ViewAt(buf, offset, n) ==
    [i \in 1..n |-> IF offset + i <= Len(buf) THEN buf[offset + i] ELSE 0]

\* Mutant of WfReadOp: n is not clamped to the buffered length.
WfReadOp_NoClamp(w, offset, n) ==
    [status |-> OK,
     result |-> IF offset < w.buf_size_ THEN ViewAt(w.buf_, offset, n) ELSE <<>>]

\* Mutant of WfReadOp: the capacity is taken for the buffered length.
WfReadOp_UsesCapacity(w, offset, n) ==
    [status |-> OK,
     result |-> IF offset < w.max_buf_size_
                THEN ViewAt(w.buf_, offset, Smaller(n, w.max_buf_size_ - offset))
                ELSE <<>>]

\* Read(offset, n, result, scratch)
WfReadOp(w, offset, n) ==
    [status |-> OK,
     result |-> IF offset < w.buf_size_
                THEN LET m == IF n > w.buf_size_ - offset
                              THEN w.buf_size_ - offset ELSE n
                     IN  ViewAt(w.buf_, offset, m)
                ELSE <<>>]

\* Mutant of ChunkSize: the last chunk is not cut at the capacity.
ChunkSize_Unclamped(w) == w.io_size_

\* Bytes Load asks the source for: a chunk, cut at the capacity.
ChunkSize(w) == Smaller(w.io_size_, w.max_buf_size_ - w.buf_size_)

\* base_->Read(n, ...) at position pos of the source: short only at its end.
SourceRead(src, pos, n) == SubSeq(src, pos + 1, Smaller(pos + n, Len(src)))

\* got copied into the buffer from index at on.
WriteAt(buf, at, got) ==
    [i \in 1..Len(buf) |->
        IF i > at /\ i <= at + Len(got) THEN got[i - at] ELSE buf[i]]

RECURSIVE LoadLoop(_, _, _, _, _)
\* The k-th read of Load and those after it; read number failAt fails.
LoadLoop(w, src, pos, k, failAt) ==
    IF w.buf_size_ >= w.max_buf_size_
    THEN [obj |-> w, status |-> OK, reads |-> k - 1]
    ELSE IF k = failAt
    THEN [obj |-> w, status |-> IOError, reads |-> k]
    ELSE LET n == ChunkSize(w)
             got == SourceRead(src, pos, n)
             w2 == [w EXCEPT !.buf_ = WriteAt(@, w.buf_size_, got),
                             !.buf_size_ = @ + Len(got)]
         IN  IF Len(got) < n
             THEN [obj |-> w2, status |-> OK, reads |-> k]
             ELSE LoadLoop(w2, src, pos + Len(got), k + 1, failAt)

\* Mutant of WfLoadOp: a failed Load forgets what it had loaded.
WfLoadOp_DropsOnFailure(w, src, failAt) ==
    LET o == LoadLoop(w, src, 0, 1, failAt)
    IN  IF o.status = OK THEN o ELSE [o EXCEPT !.obj.buf_size_ = 0]

\* Load()
WfLoadOp(w, src, failAt) == LoadLoop(w, src, 0, 1, failAt)

WholeInit ==
    /\ BufUnused /\ MeasUnused /\ AtomUnused
    /\ \E cap \in 0..MaxBuf, io \in 1..MaxIo, j \in Junk :
         wf = [max_buf_size_ |-> cap, io_size_ |-> io, buf_size_ |-> 0,
               buf_ |-> [i \in 1..cap |-> j]]
    /\ \E len \in 0..MaxSrc : wsrc = [i \in 1..len |-> i]
    /\ wphase = "unloaded"
    /\ wlast = [op |-> "new", offset |-> 0, n |-> 0, ret |-> OK,
                result |-> <<>>, reads |-> 0, before |-> wf]

WfLoad ==
    /\ wphase = "unloaded"
    /\ \E failAt \in 0..(MaxBuf + 1) :
         LET o == WfLoadOp(wf, wsrc, failAt)
         IN  /\ wf' = o.obj
             /\ wphase' = IF o.status = OK THEN "loaded" ELSE "failed"
             /\ wlast' = [op |-> "Load", offset |-> 0, n |-> 0,
                          ret |-> o.status, result |-> <<>>,
                          reads |-> o.reads, before |-> wf]
    /\ UNCHANGED <<wsrc, bufVars, measVars, atomVars>>

WfRead ==
    /\ \E offset \in 0..(MaxBuf + 1), n \in 0..(MaxBuf + 1) :
         LET o == WfReadOp(wf, offset, n)
         IN  wlast' = [op |-> "Read", offset |-> offset, n |-> n,
                       ret |-> o.status, result |-> o.result,
                       reads |-> 0, before |-> wf]
    /\ UNCHANGED <<wf, wsrc, wphase, bufVars, measVars, atomVars>>

WholeNext == WfLoad \/ WfRead

SpecWhole == WholeInit /\ [][WholeNext]_vars

\* C19: Read always succeeds; at or past the buffered length the result is
\* empty, otherwise it is the buffered bytes from offset on, at most n of
\* them and none past the buffered length; buffer and length are unchanged.
C19_ReadClamped ==
    wlast.op = "Read" =>
        /\ wlast.ret = OK
        /\ wf = wlast.before
        /\ IF wlast.offset >= wf.buf_size_
           THEN wlast.result = <<>>
           ELSE wlast.result =
                  SubSeq(wf.buf_, wlast.offset + 1,
                         wlast.offset + Smaller(wlast.n, wf.buf_size_ - wlast.offset))

\* A Read in the middle of the loaded bytes asking for more than remain.
C19_Witness ==
    /\ wlast.op = "Read" /\ wphase = "loaded"
    /\ wlast.offset > 0 /\ wlast.offset < wf.buf_size_
    /\ wlast.n > wf.buf_size_ - wlast.offset
    /\ Len(wlast.result) = wf.buf_size_ - wlast.offset

\* C20: after a Load whose reads all succeeded the buffered length is the
\* smaller of source length and capacity and the buffer holds that prefix
\* of the source, whatever the chunk size; every byte a Read returns is the
\* source byte at its position, and that position is below the capacity.
C20_LoadsPrefix ==
    /\ wphase = "loaded" =>
          /\ wf.buf_size_ = Smaller(Len(wsrc), wf.max_buf_size_)
          /\ SubSeq(wf.buf_, 1, wf.buf_size_) = SubSeq(wsrc, 1, wf.buf_size_)
    /\ wlast.op = "Read" =>
          \A i \in 1..Len(wlast.result) :
             /\ wlast.result[i] = wlast.offset + i
             /\ wlast.offset + i <= wf.max_buf_size_

\* A source longer than the capacity loaded in chunks that do not divide it.
C20_Witness ==
    /\ wphase = "loaded" /\ wlast.op = "Load"
    /\ Len(wsrc) > wf.max_buf_size_
    /\ wf.io_size_ < wf.max_buf_size_
    /\ wf.max_buf_size_ % wf.io_size_ # 0
    /\ wlast.reads > 1
    /\ wf.buf_size_ = wf.max_buf_size_

-----------------------------------------------------------------------------
(* UnsafeBufferedWritableFile used after Close, env_files.h:62-126.  Close  *)
(* deletes the writer and sets base_ to NULL, and no operation tests base_  *)
(* before calling through it.  A call through the NULL pointer is undefined *)
(* behaviour: the process crashes or runs on, and the model follows the run *)
(* no further.                                                              *)

Closed == ~destroyed /\ base_ = "NULL" /\ fault.outcome = "none"

\* An operation on the closed decorator.  r is what its code does up to
\* and including the first call on base_, if it makes one.
Absent(name, a, r) ==
    IF r.calls = <<>>
    THEN Effect(name, a, r) /\ UNCHANGED fault
    ELSE /\ \E o \in {"crash", "ran_on"} :
              fault' = [outcome |-> o, fn |-> Head(r.calls).fn]
         /\ Effect(name, a, [r EXCEPT !.status = "Undefined", !.calls = <<>>])

\* A second Close: EmptyBuffer calls base_->Append if bytes are left, and
\* line 64 calls base_->Close() in any case.
CloseAgain ==
    /\ Closed
    /\ Absent("Close", 0, CloseOp(buf_, offset_, FALSE, FALSE))
    /\ UNCHANGED <<base_, destroyed, issued, discarded, lp>>

AppendAfterClose ==
    /\ Closed
    /\ LoopExits(max_buf_size_)
    /\ \E n \in 0..MaxLen :
         /\ issued + n <= MaxTotal
         /\ Absent("Append", n,
                   AppendOp(max_buf_size_, buf_, offset_, Data(issued, n), 1))
         /\ issued' = issued + n
    /\ UNCHANGED <<base_, destroyed, discarded, lp>>

EmptyBufferAfterClose ==
    /\ Closed
    /\ Absent("EmptyBuffer", 0, EmptyBufferOp(buf_, offset_, FALSE))
    /\ UNCHANGED <<base_, destroyed, issued, discarded, lp>>

SyncAfterClose ==
    /\ Closed
    /\ \E ok \in BOOLEAN :
         Absent("Sync", 0, SyncOp(buf_, offset_, ok, FALSE))
    /\ UNCHANGED <<base_, destroyed, issued, discarded, lp>>

SyncBeforeAfterClose ==
    /\ Closed
    /\ \E target \in 0..(MaxTotal + 1) :
         Absent("SyncBefore", target, SyncBeforeOp(buf_, offset_, target, FALSE))
    /\ UNCHANGED <<base_, destroyed, issued, discarded, lp>>

MisuseNext ==
    \/ AppendCall
    \/ Close
    \/ Destroy
    \/ CloseAgain
    \/ AppendAfterClose
    \/ EmptyBufferAfterClose
    \/ SyncAfterClose
    \/ SyncBeforeAfterClose

SpecMisuse == Init /\ [][MisuseNext]_vars

\* C21: no operation issued after Close calls through the absent wrapped
\* writer: a second Close, or a later operation that has to reach the
\* writer, is stopped before the call.
C21_UseAfterCloseStopped == fault.outcome = "none"

-----------------------------------------------------------------------------
(* Further properties of WholeFileBufferedRandomAccessFile.                 *)

\* C22: a Read issued before Load is stopped as a fatal condition; it does
\* not return an ordinary successful result.
C22_ReadBeforeLoadFatal ==
    (wlast.op = "Read" /\ wphase = "unloaded") => wlast.ret # OK

\* C25: a Load in which read number k fails returns the failure with the
\* k - 1 chunks read before it buffered, a prefix of the source short of
\* the capacity; Reads after it leave the adapter as it is and serve that
\* prefix.
C25_FailedLoadKeepsPrefix ==
    /\ (wlast.op = "Load" /\ wlast.ret # OK) =>
          /\ wlast.ret = IOError /\ wphase = "failed"
          /\ wf.buf_size_ = (wlast.reads - 1) * wf.io_size_
    /\ wphase = "failed" =>
          /\ wf.buf_size_ < wf.max_buf_size_ /\ wf.buf_size_ <= Len(wsrc)
          /\ SubSeq(wf.buf_, 1, wf.buf_size_) = SubSeq(wsrc, 1, wf.buf_size_)
          /\ wlast.op = "Read" =>
                /\ wf = wlast.before
                /\ wlast.ret = OK
                /\ wlast.result =
                     IF wlast.offset >= wf.buf_size_ THEN <<>>
                     ELSE SubSeq(wsrc, wlast.offset + 1,
                                 Smaller(wlast.offset + wlast.n, wf.buf_size_))

\* After a Load that failed at its second read or later, a Read of all the
\* bytes loaded.
C25_Witness ==
    /\ wphase = "failed" /\ wlast.op = "Read"
    /\ wf.buf_size_ > 0 /\ wlast.offset = 0
    /\ Len(wlast.result) = wf.buf_size_

\* C26: before Load the buffered length is 0 and every Read returns an
\* empty result with success.
C26_UnloadedReadsEmpty ==
    wphase = "unloaded" =>
        /\ wf.buf_size_ = 0
        /\ wlast.op = "Read" => wlast.ret = OK /\ wlast.result = <<>>

\* A Read of bytes at offset 0 of an adapter with room, before Load.
C26_Witness ==
    /\ wphase = "unloaded" /\ wlast.op = "Read"
    /\ wlast.offset = 0 /\ wlast.n > 0
    /\ wf.max_buf_size_ > 0 /\ Len(wsrc) > 0

-----------------------------------------------------------------------------
(* Further properties of UnsafeBufferedWritableFile.                        *)

\* C23: after an Append that returns OK the buffer is shorter than the
\* capacity, and every wrapped Append the call made carried a full buffer:
\* a buffer that the input fills exactly is handed over in the same call.
C23_BufferBelowCapacity ==
    (op = "Append" /\ ret = OK /\ max_buf_size_ >= 1) =>
        /\ Len(buf_) < max_buf_size_
        /\ \A i \in 1..Len(calls) :
              calls[i].fn = "Append" /\ Len(calls[i].data) = max_buf_size_

\* One Append of twice the capacity into an empty buffer: two full buffers
\* handed over, nothing left.
C23_Witness ==
    /\ op = "Append" /\ ret = OK /\ max_buf_size_ >= 2
    /\ arg = 2 * max_buf_size_ /\ Len(calls) = 2 /\ buf_ = <<>>

\* C27: after a SyncBefore(target) that returns OK, every byte the
\* decorator holds or has handed over at a position below target has been
\* handed to the wrapped writer.
C27_SyncBeforeCovers ==
    (op = "SyncBefore" /\ ret = OK) =>
        offset_ >= Smaller(arg, offset_ + Len(buf_))

\* A SyncBefore whose target lay inside the buffered bytes emptied the
\* buffer.
C27_Witness ==
    /\ op = "SyncBefore" /\ ret = OK /\ Len(calls) = 1
    /\ arg > 0 /\ arg < offset_ /\ Len(calls[1].data) < offset_

\* C28: the wrapped writer is never closed or deleted twice, is untouched
\* by Close and delete while the decorator is open, and has been closed once
\* and deleted once when the decorator has been destroyed.
C28_ClosedOnceDeletedOnce ==
    /\ baseCloses <= 1 /\ baseDeletes <= 1
    /\ (~destroyed /\ base_ # "NULL") => (baseCloses = 0 /\ baseDeletes = 0)
    /\ (destroyed \/ base_ = "NULL") => (baseCloses = 1 /\ baseDeletes = 1)

\* Destruction after a Close whose buffer-empty step failed.
C28_Witness ==
    /\ destroyed /\ op = "Destroy" /\ calls = <<>>
    /\ prev.op = "Close" /\ prev.ret = IOError /\ Len(buf_) > 0

\* C30: the destructor makes no wrapped Append, so the bytes buffered at
\* destruction are not among those the writer accepted; wrapped Appends are
\* made only by Close, EmptyBuffer, Sync, SyncBefore and by an Append that
\* fills the buffer.
C30_DestroyDropsBuffer ==
    /\ op = "Destroy" =>
          /\ Count(calls, "Append") = 0
          /\ calls # <<>> =>
                (calls[1].fn = "Close" /\ calls[2].fn = "delete" /\ Len(calls) = 2)
    /\ destroyed => Range(buf_) \cap Range(wrapped) = {}
    /\ Count(calls, "Append") > 0 =>
          /\ op \in {"Close", "EmptyBuffer", "Sync", "SyncBefore", "Append"}
          /\ op = "Append" =>
                \A i \in 1..Len(calls) : Len(calls[i].data) = max_buf_size_

\* Destruction without Close, with bytes in the buffer and bytes already
\* handed over.
C30_Witness ==
    /\ op = "Destroy" /\ prev.op # "Close" /\ base_ # "NULL"
    /\ Len(buf_) > 0 /\ offset_ > 0 /\ baseCloses = 1

-----------------------------------------------------------------------------
(* Further properties of MeasuredWritableFile.                              *)

\* C29: Close with a base present calls the base's Close once, returns its
\* Status and detaches the base whether or not that Close succeeded, with
\* every counter as it was; Append, Flush and Sync on the detached decorator
\* return Disconnected, call nothing and count nothing.
C29_CloseDetachesKeepsCounters ==
    mlast.obj = "writable" =>
        /\ (mlast.op = "Close" /\ mlast.before.base_ # NULL) =>
              /\ Len(mlast.calls) = 1
              /\ mlast.calls[1].fn = "Close"
              /\ mlast.calls[1].target = mlast.before.base_
              /\ mlast.ret = StatusOf(mlast.calls[1].ok)
              /\ mw = [mlast.before EXCEPT !.base_ = NULL]
        /\ (mlast.op \in {"Append", "Flush", "Sync"} /\ mw.base_ = NULL) =>
              /\ mlast.ret = Disconnected
              /\ mlast.calls = <<>>
              /\ mw = mlast.before

\* A Close that the base failed, on a decorator that had counted an Append
\* and a Flush.
C29_Witness ==
    /\ mlast.obj = "writable" /\ mlast.op = "Close" /\ mlast.ret = IOError
    /\ mlast.before.base_ # NULL /\ mw.base_ = NULL
    /\ mw.ops_ > 0 /\ mw.num_flushes_ # Zero32

-----------------------------------------------------------------------------
(* Append taken one loop iteration at a time, env_files.h:70-92, for every  *)
(* capacity the constructor accepts, 0 included.  lp holds the locals of    *)
(* the call in progress: chunk, s and the calls made so far.                *)

\* Lines 71-72: the call is entered with n more bytes of the stream.
ApBegin ==
    /\ Live /\ lp.pc = "idle"
    /\ \E n \in 0..MaxLen :
         /\ issued + n <= MaxTotal
         /\ lp' = [LpIdle EXCEPT !.pc = "loop", !.chunk = Data(issued, n), !.n = n]
    /\ UNCHANGED <<max_buf_size_, buf_, offset_, base_, destroyed, op, arg, ret,
                   calls, prev, wrapped, issued, allOk, discarded, baseCloses,
                   baseDeletes, fault, measVars, atomVars, wholeVars>>

\* Lines 73-81: the loop condition holds and one iteration runs.
ApIter ==
    /\ lp.pc = "loop"
    /\ LoopCond(Len(buf_), Len(lp.chunk), max_buf_size_)
    /\ \E ok \in BOOLEAN :
         LET left == Left(max_buf_size_, Len(buf_))
             r    == EmptyBufferOp(BufAppend(buf_, lp.chunk, left), offset_, ok)
         IN  /\ buf_' = r.buf
             /\ offset_' = r.offset
             /\ lp' = IF r.status = OK
                      THEN [lp EXCEPT !.chunk = RemovePrefix(lp.chunk, left),
                                      !.cs = lp.cs \o r.calls]
                      ELSE [lp EXCEPT !.pc = "tail", !.status = r.status,
                                      !.cs = lp.cs \o r.calls, !.copied = left]
    /\ UNCHANGED <<max_buf_size_, base_, destroyed, op, arg, ret, calls, prev,
                   wrapped, issued, allOk, discarded, baseCloses, baseDeletes,
                   fault, measVars, atomVars, wholeVars>>

\* Line 73: the loop condition fails.
ApExit ==
    /\ lp.pc = "loop"
    /\ ~LoopCond(Len(buf_), Len(lp.chunk), max_buf_size_)
    /\ lp' = [lp EXCEPT !.pc = "tail"]
    /\ UNCHANGED <<max_buf_size_, buf_, offset_, base_, destroyed, op, arg, ret,
                   calls, prev, wrapped, issued, allOk, discarded, baseCloses,
                   baseDeletes, fault, measVars, atomVars, wholeVars>>

\* Lines 83-91: the call returns.
ApReturn ==
    /\ lp.pc = "tail"
    /\ LET r == AppendTail([buf |-> buf_, offset |-> offset_, status |-> lp.status,
                            calls |-> lp.cs, chunk |-> lp.chunk,
                            copied |-> lp.copied])
       IN  /\ Effect("Append", lp.n, r)
           /\ discarded' = discarded \cup
                 (IF r.status = OK THEN {}
                  ELSE Range(RemovePrefix(r.chunk, r.copied)))
    /\ issued' = issued + lp.n
    /\ lp' = LpIdle
    /\ UNCHANGED <<base_, destroyed, fault>>

StepNext == ApBegin \/ ApIter \/ ApExit \/ ApReturn

\* Each wrapped-writer call returns and the calling thread keeps running.
SpecAppendSteps ==
    /\ Init /\ [][StepNext]_vars
    /\ WF_vars(ApIter) /\ WF_vars(ApExit) /\ WF_vars(ApReturn)

\* C24: every Append call that is entered returns, whatever the capacity,
\* the buffer and the input length.
C24_AppendReturns == (lp.pc # "idle") ~> (lp.pc = "idle")

=============================================================================
